---- MODULE Spec2Model ----
(***************************************************************************)
(* Model of src/wasm/patch.py: wasm2wat, a line scan that replaces every   *)
(* function mentioning f32/f64 by the stub "(func )", the write of         *)
(* pkg/patched.wat, and wat2wasm.                                          *)
(*                                                                         *)
(* A line of text is a sequence of tokens.  The tokens are the pieces of   *)
(* text the script looks at: "(func" (the opening marker, which holds one  *)
(* '(' character), "(", ")", "f32", "f64", " " (white space) and "x" (any  *)
(* other text).  The line terminator is left implicit: every line ends     *)
(* with one.                                                               *)
(***************************************************************************)
EXTENDS Integers, Sequences, FiniteSets, TLC

\* Largest number of lines of pkg/origin.wat the decoder produces.
MaxLines == 4

\* ------------------------------------------------------------------------
\* Lines the decoder may produce.
\* ------------------------------------------------------------------------
LOpen  == <<" ", "(func", "x">>      \* indented opening line, depth +1
LOpenF == <<"(func", "f64">>         \* opening line with a float param
LOne   == <<"(func", "x", ")">>      \* opens and closes on one line
LCC    == <<"(func", ")", ")">>      \* opening marker, net depth -1
LX     == <<"x">>                    \* text without parentheses
LF     == <<"(", "f32", ")">>        \* balanced form with a float type
LLp    == <<"(">>                    \* opens a nested form
LClose == <<")">>                    \* closes a form
LDip   == <<")", ")", "(">>          \* dips by 2, ends at net -1

Vocabulary == {LOpen, LOpenF, LOne, LCC, LX, LF, LLp, LClose, LDip}

Texts == UNION {[1..n -> Vocabulary] : n \in 0..MaxLines}

\* ------------------------------------------------------------------------
\* Text primitives
\* ------------------------------------------------------------------------
RECURSIVE LStrip(_)
LStrip(line) ==
    IF line = <<>> THEN <<>>
    ELSE IF Head(line) = " " THEN LStrip(Tail(line))
    ELSE line

RECURSIVE RStrip(_)
RStrip(line) ==
    IF line = <<>> THEN <<>>
    ELSE IF line[Len(line)] = " " THEN RStrip(SubSeq(line, 1, Len(line) - 1))
    ELSE line

\* line.strip()
Strip(line) == RStrip(LStrip(line))

\* line.strip().startswith("(func")
StartsWithFunc(line) ==
    /\ Strip(line) # <<>>
    /\ Head(Strip(line)) = "(func"

\* 'f64' in line or 'f32' in line
HasFloat(line) == \E k \in 1..Len(line) : line[k] \in {"f64", "f32"}

\* the effect of one character group on func_depth
ParenDelta(c) ==
    IF c \in {"(", "(func"} THEN 1
    ELSE IF c = ")" THEN -1
    ELSE 0

\* for c in line: func_depth += 1 / func_depth -= 1
RECURSIVE CountDepth(_, _)
CountDepth(d, line) ==
    IF line = <<>> THEN d
    ELSE CountDepth(d + ParenDelta(Head(line)), Tail(line))

\* the stub line "(func )\n"
Stub == <<"(func", " ", ")">>

\* ------------------------------------------------------------------------
\* State
\* ------------------------------------------------------------------------
VARIABLES
    pc,            \* position of the script
    err,           \* why the script failed: "none", "decoder", "depth", "encoder"
    trace,         \* external effects so far, in order
    origin_wat,    \* lines of pkg/origin.wat, as returned by fp.readlines()
    i,             \* number of lines the for loop has consumed
    new_lines, inside_func, func_depth, clear_func, func_lines, func_sig,
    printed,       \* signatures printed on standard output
    patched_wat    \* pkg/patched.wat: [exists, text]

vars == <<pc, err, trace, origin_wat, i, new_lines, inside_func, func_depth,
          clear_func, func_lines, func_sig, printed, patched_wat>>

scanvars == <<new_lines, inside_func, func_depth, clear_func, func_lines,
              func_sig, printed>>

\* the scanner's variables as one record
Scanner(nl, inf, fd, cf, fl, fs, pr, ra) ==
    [new_lines |-> nl, inside_func |-> inf, func_depth |-> fd,
     clear_func |-> cf, func_lines |-> fl, func_sig |-> fs,
     printed |-> pr, raised |-> ra]

\* lines 15-21
Scanner0 == Scanner(<<>>, FALSE, 0, FALSE, <<>>, <<>>, <<>>, FALSE)

Cur == Scanner(new_lines, inside_func, func_depth, clear_func, func_lines,
               func_sig, printed, FALSE)

Init ==
    /\ pc = "start"
    /\ err = "none"
    /\ trace = <<>>
    /\ origin_wat = <<>>
    /\ i = 0
    /\ new_lines = Scanner0.new_lines
    /\ inside_func = Scanner0.inside_func
    /\ func_depth = Scanner0.func_depth
    /\ clear_func = Scanner0.clear_func
    /\ func_lines = Scanner0.func_lines
    /\ func_sig = Scanner0.func_sig
    /\ printed = Scanner0.printed
    /\ patched_wat = [exists |-> FALSE, text |-> <<>>]

\* ------------------------------------------------------------------------
\* The body of the for loop, lines 24-50
\* ------------------------------------------------------------------------
\* FuncStart that resets the float flag but keeps the buffered lines
FuncStartKeepLines(s, line) ==
    IF StartsWithFunc(line)
    THEN [s EXCEPT !.inside_func = TRUE,
                   !.clear_func = HasFloat(line),
                   !.func_sig = Strip(line)]
    ELSE s

\* FuncStart that keeps the float flag of the function before
FuncStartKeepFlag(s, line) ==
    IF StartsWithFunc(line)
    THEN [s EXCEPT !.inside_func = TRUE,
                   !.func_lines = <<>>,
                   !.clear_func = s.clear_func \/ HasFloat(line),
                   !.func_sig = Strip(line)]
    ELSE s

\* lines 25-29: the "func start" test, made whether or not inside_func
FuncStart(s, line) ==
    IF StartsWithFunc(line)
    THEN [s EXCEPT !.inside_func = TRUE,
                   !.func_lines = <<>>,
                   !.clear_func = HasFloat(line),
                   !.func_sig = Strip(line)]
    ELSE s

\* lines 32-38
Accumulate(s, line) ==
    [s EXCEPT !.clear_func = s.clear_func \/ HasFloat(line),
              !.func_lines = Append(s.func_lines, line),
              !.func_depth = CountDepth(s.func_depth, line)]

\* EmitFunc without the clear_func test: the function is always kept
EmitFuncKeepAll(out, clear, flines) == out \o flines

\* lines 43-47: what a closed function adds to new_lines
EmitFunc(out, clear, flines) ==
    IF clear THEN Append(out, Stub) ELSE out \o flines

\* lines 44: print("clear func: ", func_sig)
PrintSig(pr, clear, sig) ==
    IF clear THEN Append(pr, sig) ELSE pr

\* CloseFunc without the negative-depth raise
CloseFuncNoRaise(s) ==
    IF s.func_depth = 0
    THEN [s EXCEPT !.inside_func = FALSE,
                   !.printed = PrintSig(s.printed, s.clear_func, s.func_sig),
                   !.new_lines = EmitFunc(s.new_lines, s.clear_func, s.func_lines)]
    ELSE s

\* CloseFunc that closes a function as soon as the depth is back to 1
CloseFuncEarly(s) ==
    IF s.func_depth < 0 THEN [s EXCEPT !.raised = TRUE]
    ELSE IF s.func_depth <= 1
    THEN [s EXCEPT !.inside_func = FALSE,
                   !.printed = PrintSig(s.printed, s.clear_func, s.func_sig),
                   !.new_lines = EmitFunc(s.new_lines, s.clear_func, s.func_lines)]
    ELSE s

\* lines 39-47: the tests made after the characters of the line are counted
CloseFunc(s) ==
    IF s.func_depth < 0 THEN [s EXCEPT !.raised = TRUE]
    ELSE IF s.func_depth = 0
    THEN [s EXCEPT !.inside_func = FALSE,
                   !.printed = PrintSig(s.printed, s.clear_func, s.func_sig),
                   !.new_lines = EmitFunc(s.new_lines, s.clear_func, s.func_lines)]
    ELSE s

\* EmitPlain that loses the line
EmitPlainDropped(out, line) == out

\* line 50
EmitPlain(out, line) == Append(out, line)

\* Body that counts the parentheses of plain lines too
BodyCountsPlain(s, line) ==
    LET s1 == FuncStart(s, line)
    IN  IF s1.inside_func
        THEN CloseFunc(Accumulate(s1, line))
        ELSE [s1 EXCEPT !.new_lines = EmitPlain(s1.new_lines, line),
                        !.func_depth = CountDepth(s1.func_depth, line)]

\* lines 24-50
Body(s, line) ==
    LET s1 == FuncStart(s, line)
    IN  IF s1.inside_func
        THEN CloseFunc(Accumulate(s1, line))
        ELSE [s1 EXCEPT !.new_lines = EmitPlain(s1.new_lines, line)]

\* lines 15-50 on a whole text: the scanner after the loop, or at the raise
RECURSIVE Loop(_, _)
Loop(s, text) ==
    IF text = <<>> \/ s.raised THEN s
    ELSE Loop(Body(s, Head(text)), Tail(text))

Rewrite(text) == Loop(Scanner0, text)

\* ------------------------------------------------------------------------
\* Actions
\* ------------------------------------------------------------------------
\* AfterDecoder without the assert
AfterDecoderUnchecked(rc) == "scan"

\* line 10: assert res.returncode == 0
AfterDecoder(rc) == IF rc = 0 THEN "scan" ELSE "failed"

\* line 56: assert res.returncode == 0
AfterEncoder(rc) == IF rc = 0 THEN "done" ELSE "failed"

\* AfterLine where the depth error is reported but the loop goes on
AfterLineNoAbort(raised) == "scan"

\* line 40: the raise leaves the loop and ends the script
AfterLine(raised) == IF raised THEN "failed" ELSE "scan"

\* lines 9-12 and the readlines() of line 23
Wasm2Wat ==
    /\ pc = "start"
    /\ \E rc \in {0, 1}, text \in Texts :
        /\ pc' = AfterDecoder(rc)
        /\ err' = IF rc = 0 THEN "none" ELSE "decoder"
        /\ origin_wat' = IF rc = 0 THEN text ELSE <<>>
    /\ trace' = Append(trace, "wasm2wat")
    /\ UNCHANGED <<i, scanvars, patched_wat>>

\* one iteration of the for loop, lines 23-50
ScanLine ==
    /\ pc = "scan"
    /\ i < Len(origin_wat)
    /\ LET s == Body(Cur, origin_wat[i + 1])
       IN  /\ new_lines' = s.new_lines
           /\ inside_func' = s.inside_func
           /\ func_depth' = s.func_depth
           /\ clear_func' = s.clear_func
           /\ func_lines' = s.func_lines
           /\ func_sig' = s.func_sig
           /\ printed' = s.printed
           /\ pc' = AfterLine(s.raised)
           /\ err' = IF s.raised THEN "depth" ELSE err
    /\ i' = i + 1
    /\ UNCHANGED <<trace, origin_wat, patched_wat>>

\* lines 52-53, reached when the loop has consumed every line
WritePatched ==
    /\ pc = "scan"
    /\ i = Len(origin_wat)
    /\ patched_wat' = [exists |-> TRUE, text |-> new_lines]
    /\ trace' = Append(trace, "write")
    /\ pc' = "encode"
    /\ UNCHANGED <<err, origin_wat, i, scanvars>>

\* lines 55-56
Wat2Wasm ==
    /\ pc = "encode"
    /\ \E rc \in {0, 1} :
        /\ pc' = AfterEncoder(rc)
        /\ err' = IF rc = 0 THEN "none" ELSE "encoder"
    /\ trace' = Append(trace, "wat2wasm")
    /\ UNCHANGED <<origin_wat, i, scanvars, patched_wat>>

Next == Wasm2Wat \/ ScanLine \/ WritePatched \/ Wat2Wasm

Spec == Init /\ [][Next]_vars

\* ------------------------------------------------------------------------
\* The function definitions of a text (spec section 3): a definition opens
\* at a line read in top-level mode whose trimmed text starts with "(func"
\* and closes at the first line at whose end the depth, counted from the
\* opening line, is 0.  Form(text, k) is the position after k lines.
\* ------------------------------------------------------------------------
RECURSIVE Form(_, _)
Form(text, k) ==
    IF k = 0 THEN [open |-> FALSE, depth |-> 0, first |-> 0]
    ELSE LET p == Form(text, k - 1)
             q == IF ~p.open /\ StartsWithFunc(text[k])
                  THEN [open |-> TRUE, depth |-> 0, first |-> k]
                  ELSE p
             d == CountDepth(q.depth, text[k])
         IN  IF q.open
             THEN [open |-> d # 0, depth |-> d, first |-> q.first]
             ELSE [open |-> FALSE, depth |-> 0, first |-> 0]

\* line k is a line of a function definition (open or closed)
InFunction(text, k) == Form(text, k).first # 0

\* line k is the closing line of a function definition
ClosesAt(text, k) == InFunction(text, k) /\ ~Form(text, k).open

\* the lines of the definition that line k belongs to, up to line k
FunctionUpTo(text, k) == SubSeq(text, Form(text, k).first, k)

AnyFloat(text) == \E k \in 1..Len(text) : HasFloat(text[k])

\* the rewrite of a text runs to the end of the loop
Completes(text) == ~Rewrite(text).raised

IsSuffix(t, u) ==
    /\ Len(t) <= Len(u)
    /\ SubSeq(u, Len(u) - Len(t) + 1, Len(u)) = t

IsPrefix(t, u) ==
    /\ Len(t) <= Len(u)
    /\ SubSeq(u, 1, Len(t)) = t

\* the least value the running depth takes at a character of the line
RECURSIVE MinDepth(_, _)
MinDepth(d, line) ==
    IF line = <<>> THEN d
    ELSE LET e == d + ParenDelta(Head(line))
             m == MinDepth(e, Tail(line))
         IN  IF e < m THEN e ELSE m

\* the for loop is consuming line i + 1 in this step
ScanStep == pc = "scan" /\ i' = i + 1

\* ------------------------------------------------------------------------
\* Claims
\* ------------------------------------------------------------------------

\* C1: when the rewrite of the input completes, the step that reads the
\* closing line of a function definition with a line containing f32 or f64
\* appends exactly the one line "(func )" to the output, and that line
\* contains no float marker.
C1_StubCorrectness ==
    [][(/\ ScanStep
        /\ Completes(origin_wat)
        /\ ClosesAt(origin_wat, i')
        /\ AnyFloat(FunctionUpTo(origin_wat, i')))
       => (/\ new_lines' = Append(new_lines, Stub)
           /\ ~HasFloat(Stub))]_vars

\* C2: when the rewrite of the input completes, after the closing line of a
\* function definition without a float marker has been read, the output ends
\* with all the lines of that definition, opening line to closing line.
C2_NonFloatPreserved ==
    (/\ pc = "scan"
     /\ i >= 1
     /\ Completes(origin_wat)
     /\ ClosesAt(origin_wat, i)
     /\ ~AnyFloat(FunctionUpTo(origin_wat, i)))
    => IsSuffix(FunctionUpTo(origin_wat, i), new_lines)

\* C3: a run that completes on an input without any float marker leaves a
\* rewritten text equal to the input.
C3_OrderPreserved ==
    (pc = "done" /\ ~AnyFloat(origin_wat))
    => patched_wat.text = origin_wat

\* C4: when the loop has consumed the whole input and inside_func is still
\* true, the run fails and pkg/patched.wat is not written.
C4_UnterminatedIsError ==
    (/\ pc \notin {"start", "scan"}
     /\ err # "depth"
     /\ i = Len(origin_wat)
     /\ inside_func)
    => (pc = "failed" /\ ~patched_wat.exists)

\* C5: a line scanned inside a function whose running depth is negative at
\* some character makes the scan fail with the depth error.
C5_NegativeDepthPerCharacter ==
    [][(/\ ScanStep
        /\ inside_func \/ StartsWithFunc(origin_wat[i'])
        /\ MinDepth(func_depth, origin_wat[i']) < 0)
       => err' = "depth"]_vars

\* C6: once the scan has raised the depth error, pkg/patched.wat has not
\* been written and wat2wasm has not been invoked.
C6_NoPartialRewrite ==
    err = "depth"
    => (/\ ~patched_wat.exists
        /\ \A k \in 1..Len(trace) : trace[k] \notin {"write", "wat2wasm"})

\* C6 witness: the depth error is raised after earlier lines were emitted.
C6_Witness ==
    /\ err = "depth"
    /\ pc = "failed"
    /\ i >= 2
    /\ new_lines # <<>>
    /\ ~patched_wat.exists

\* no line of a function definition of the text contains a float marker
NoFloatFunction(text) ==
    \A k \in 1..Len(text) : InFunction(text, k) => ~HasFloat(text[k])

\* no line of the text outside its function definitions contains a marker
NoFloatPlain(text) ==
    \A k \in 1..Len(text) : ~InFunction(text, k) => ~HasFloat(text[k])

\* C7: when the input has no function with a float marker and the rewrite
\* has completed, the rewrite of its output completes and returns the same
\* output.
C7_IdempotentOnClean ==
    (patched_wat.exists /\ NoFloatFunction(origin_wat))
    => (/\ Completes(patched_wat.text)
        /\ Rewrite(patched_wat.text).new_lines = patched_wat.text)

\* C8 as stated: no line of a rewritten text contains f32 or f64.
C8_OutputFloatFree ==
    patched_wat.exists => ~AnyFloat(patched_wat.text)

\* C8 amended: when no line of the input outside its function definitions
\* contains f32 or f64, no line of the rewritten text contains f32 or f64.
C8_FloatFreeUnlessPlain ==
    (patched_wat.exists /\ NoFloatPlain(origin_wat))
    => ~AnyFloat(patched_wat.text)

\* C8 witness: an input with a float marker inside a function only, whose
\* rewritten text holds the stub.
C8_Witness ==
    /\ patched_wat.exists
    /\ NoFloatPlain(origin_wat)
    /\ AnyFloat(origin_wat)
    /\ \E k \in 1..Len(patched_wat.text) : patched_wat.text[k] = Stub
    /\ Len(patched_wat.text) >= 2

\* C9: the step that reads a line in top-level mode whose trimmed text does
\* not start with "(func" appends that line, unchanged and once, to the
\* output; and every step of the scan keeps the lines already in the output
\* in place, so plain lines keep their input order.
C9_PlainPassThrough ==
    [][/\ (/\ ScanStep
           /\ ~inside_func
           /\ ~StartsWithFunc(origin_wat[i']))
          => new_lines' = Append(new_lines, origin_wat[i'])
       /\ IsPrefix(new_lines, new_lines')]_vars

\* C9 witness: a plain line has just been appended after a function
\* definition and an earlier plain line.
C9_Witness ==
    /\ pc = "scan"
    /\ i >= 3
    /\ ~InFunction(origin_wat, i)
    /\ new_lines[Len(new_lines)] = origin_wat[i]
    /\ ~InFunction(origin_wat, 1)
    /\ \E k \in 2..(i - 1) : ClosesAt(origin_wat, k)

\* C10: the external effects happen in the order wasm2wat, write, wat2wasm,
\* each at most once; no line is scanned unless wasm2wat returned 0; a
\* failed decoder leaves nothing scanned, written or encoded; the write
\* happens after the whole input was scanned and holds the whole rewritten
\* text; a non-zero encoder status fails the run.
C10_PipelineOrder ==
    /\ IsPrefix(trace, <<"wasm2wat", "write", "wat2wasm">>)
    /\ i > 0 => (trace # <<>> /\ err # "decoder")
    /\ err = "decoder"
       => (/\ pc = "failed"
           /\ i = 0
           /\ new_lines = <<>>
           /\ ~patched_wat.exists
           /\ trace = <<"wasm2wat">>)
    /\ patched_wat.exists <=> Len(trace) >= 2
    /\ patched_wat.exists
       => (i = Len(origin_wat) /\ patched_wat.text = new_lines)
    /\ err = "encoder" => (pc = "failed" /\ Len(trace) = 3)
    /\ pc = "done" => (err = "none" /\ Len(trace) = 3)

\* C10 witness: the encoder was run after the write of a non-empty text and
\* returned a non-zero status.
C10_Witness ==
    /\ err = "encoder"
    /\ pc = "failed"
    /\ trace = <<"wasm2wat", "write", "wat2wasm">>
    /\ patched_wat.text # <<>>
    /\ patched_wat.text = new_lines

\* the characters of a run of lines, in order
RECURSIVE Flatten(_)
Flatten(text) ==
    IF text = <<>> THEN <<>>
    ELSE Head(text) \o Flatten(Tail(text))

\* the running depth after the first k characters, counted from 0
DepthAt(chars, k) == CountDepth(0, SubSeq(chars, 1, k))

\* C11: when the closing line of a function definition has been read without
\* an error, the running parenthesis count over the characters of the
\* definition's lines, from 0 at its first character, is never negative, is
\* 0 at the end of the last line, and is 0 at no earlier point after the
\* opening parenthesis.
C11_DepthInvariant ==
    (/\ pc = "scan"
     /\ i >= 1
     /\ ClosesAt(origin_wat, i))
    => LET chars == Flatten(FunctionUpTo(origin_wat, i))
       IN  /\ \A k \in 1..Len(chars) : DepthAt(chars, k) >= 0
           /\ DepthAt(chars, Len(chars)) = 0
           /\ \A k \in 1..(Len(chars) - 1) :
                (\E j \in 1..k : chars[j] = "(func") => DepthAt(chars, k) # 0

\* C12: at every line boundary reached without an error the scanner is
\* inside a function exactly when a function definition that opened at a
\* top-level "(func" line has not yet had a line at whose end the depth
\* counted from its opening line is 0; the function's lines are emitted at
\* that line and not before, and the next line is read in top-level mode.
C12_FunctionBoundary ==
    (pc = "scan" /\ i >= 1)
    => (/\ inside_func = Form(origin_wat, i).open
        /\ inside_func => func_depth = Form(origin_wat, i).depth
        /\ (InFunction(origin_wat, i) /\ inside_func)
           => new_lines = Rewrite(SubSeq(origin_wat, 1,
                                         Form(origin_wat, i).first - 1)).new_lines)

\* C12 witness: a function whose depth rose to 2 and came back to 1 one line
\* before it closed at depth 0; the scanner is back in top-level mode.
C12_Witness ==
    /\ pc = "scan"
    /\ i >= 4
    /\ ClosesAt(origin_wat, i)
    /\ Form(origin_wat, i).first = i - 3
    /\ Form(origin_wat, i - 2).depth = 2
    /\ Form(origin_wat, i - 1).depth = 1
    /\ ~inside_func
    /\ IsSuffix(FunctionUpTo(origin_wat, i), new_lines)

\* C13: a line read while the scanner is inside a function whose float flag
\* is already true leaves the flag true.
C13_FlagMonotonic ==
    [][(ScanStep /\ inside_func /\ clear_func) => clear_func']_vars

\* every function definition of the text is closed, and no line of a
\* definition other than its opening line starts with "(func"
WellFormed(text) ==
    /\ Completes(text)
    /\ ~Form(text, Len(text)).open
    /\ \A k \in 1..Len(text) :
         (InFunction(text, k) /\ Form(text, k).first # k)
         => ~StartsWithFunc(text[k])

\* the first k lines of the text with every closed function definition that
\* has a float marker on one of its own lines replaced by the stub, and
\* everything else kept in place
RECURSIVE Stubbed(_, _)
Stubbed(text, k) ==
    IF k = 0 THEN <<>>
    ELSE LET e == Stubbed(text, k - 1)
         IN  IF ~InFunction(text, k) THEN Append(e, text[k])
             ELSE IF ~ClosesAt(text, k) THEN e
             ELSE IF AnyFloat(FunctionUpTo(text, k)) THEN Append(e, Stub)
             ELSE e \o FunctionUpTo(text, k)

\* C14: on a well-formed input the rewritten text is the input with exactly
\* the functions that have a float marker on one of their own lines replaced
\* by the stub, every other function and every plain line kept, in order.
C14_PerFunctionDecision ==
    (patched_wat.exists /\ WellFormed(origin_wat))
    => patched_wat.text = Stubbed(origin_wat, Len(origin_wat))

\* C14 witness: a well-formed input with a plain line carrying a marker, a
\* stubbed function and, after it, a function kept verbatim.
C14_Witness ==
    /\ patched_wat.exists
    /\ WellFormed(origin_wat)
    /\ \E p, a, b \in 1..Len(origin_wat) :
         /\ ~InFunction(origin_wat, p) /\ HasFloat(origin_wat[p])
         /\ a < b
         /\ ClosesAt(origin_wat, a) /\ AnyFloat(FunctionUpTo(origin_wat, a))
         /\ ClosesAt(origin_wat, b) /\ ~AnyFloat(FunctionUpTo(origin_wat, b))
    /\ \E k \in 1..Len(patched_wat.text) : patched_wat.text[k] = Stub

\* the number of stub lines in an output
RECURSIVE NumStubs(_)
NumStubs(out) ==
    IF out = <<>> THEN 0
    ELSE (IF Head(out) = Stub THEN 1 ELSE 0) + NumStubs(Tail(out))

\* C15: a step of the scan prints a record exactly when it appends a stub
\* line, so the records are as many as the stub lines emitted, and the
\* record printed is the trimmed opening line of the function definition
\* being stubbed.
C15_DiagnosticsMatchStubs ==
    [][ScanStep
       => (/\ (printed' # printed) <=> (new_lines' = Append(new_lines, Stub))
           /\ Len(printed') = NumStubs(new_lines')
           /\ (printed' # printed)
              => printed' = Append(printed,
                     Strip(origin_wat[Form(origin_wat, i').first])))]_vars

\* C16: at every line boundary reached without the depth error, inside_func
\* is true exactly when func_depth is at least 1, and func_depth is not
\* negative; so func_depth is 0 in top-level mode.
C16_ModeMatchesDepth ==
    err # "depth"
    => (/\ inside_func <=> func_depth >= 1
        /\ func_depth >= 0
        /\ ~inside_func => func_depth = 0)

\* C16 witness: after an earlier function has closed, the scanner is inside
\* a second function whose depth, counted again from 0, has reached 2.
C16_Witness ==
    /\ pc = "scan"
    /\ i >= 3
    /\ inside_func
    /\ func_depth = 2
    /\ Form(origin_wat, i).first >= 2
    /\ ClosesAt(origin_wat, Form(origin_wat, i).first - 1)

\* C17: the step that reads a line in top-level mode whose trimmed text does
\* not start with "(func" appends the line to the output and changes nothing
\* else of the scanner: inside_func, func_depth, clear_func, func_lines and
\* func_sig keep their values, nothing is printed and no error is raised,
\* whatever parentheses the line holds.
C17_PlainLineFrame ==
    [][(/\ ScanStep
        /\ ~inside_func
        /\ ~StartsWithFunc(origin_wat[i']))
       => (/\ new_lines' = new_lines \o <<origin_wat[i']>>
           /\ UNCHANGED <<inside_func, func_depth, clear_func, func_lines,
                          func_sig, printed>>
           /\ err' = err
           /\ pc' = "scan")]_vars

\* C17 witness: a plain line with more closing than opening parentheses has
\* been read after a function closed, and the scanner is still at depth 0
\* without an error.
C17_Witness ==
    /\ pc = "scan"
    /\ err = "none"
    /\ i >= 2
    /\ ClosesAt(origin_wat, i - 1)
    /\ ~InFunction(origin_wat, i)
    /\ CountDepth(0, origin_wat[i]) < 0
    /\ func_depth = 0
    /\ ~inside_func
    /\ func_lines # <<>>

\* C18: the lines a step of the scan appends to the output when it reads a
\* line of a function (a line read inside a function, or a "(func" line)
\* contain no float marker, on every input; so a marker in the output came
\* from a plain top-level line.
C18_EmittedBodiesFloatFree ==
    [][(/\ ScanStep
        /\ inside_func \/ StartsWithFunc(origin_wat[i']))
       => (/\ IsPrefix(new_lines, new_lines')
           /\ ~AnyFloat(SubSeq(new_lines', Len(new_lines) + 1,
                               Len(new_lines'))))]_vars

\* C18 witness: a function definition with a float marker on one of its
\* lines and a later "(func" line in its body has closed, and the lines from
\* that inner line on were appended verbatim.
C18_Witness ==
    /\ pc = "scan"
    /\ i >= 2
    /\ ClosesAt(origin_wat, i)
    /\ AnyFloat(FunctionUpTo(origin_wat, i))
    /\ ~clear_func
    /\ func_lines # <<>>
    /\ Len(func_lines) < Len(FunctionUpTo(origin_wat, i))
    /\ IsSuffix(func_lines, new_lines)

====
